---- MODULE Spec2Model ----
(***************************************************************************)
(* Model of the Retry interceptor of package request                       *)
(* (src/interceptor_retry.go).  One RoundTrip call of the wrapped          *)
(* transport is a small sequential state machine: snapshot of the request  *)
(* body, first attempt, then the retry loop (backoff wait, drain of the    *)
(* discarded response, reset of the request body, next attempt).           *)
(* The downstream transport and the caller's context are the environment:  *)
(* every downstream call may yield any response status or a transport      *)
(* error and may read any number of bytes of the body stream it is given.  *)
(* Durations are in seconds.                                               *)
(***************************************************************************)
EXTENDS Integers, Sequences, FiniteSets, TLC

\* ---- bounds of the model -------------------------------------------------

\* longest request body (in bytes) the caller sends
MaxBodyLen == 2

\* ---- values ---------------------------------------------------------------

\* the byte values of a body: the interceptor never looks at them, and a stream
\* that was read differs from a fresh one by its length
Bytes == {"a"}

\* status codes the downstream transport answers with
Statuses == {200, 418, 429, 500, 503, 504}

\* the argument lists Retry(statusCodes ...int) is constructed with
StatusCodeArgs == {<< >>, <<418>>, <<418, 503>>}

\* method, URL and headers of the requests handed to the interceptor
RequestLines == {"GET /a", "POST /b"}

\* nil *http.Response / nil error / nil io.ReadCloser
NilRes == [kind |-> "nil"]
NilErr == [kind |-> "nil"]

\* all byte sequences of length at most n
RECURSIVE SeqsUpTo(_)
SeqsUpTo(n) ==
    IF n = 0 THEN {<< >>}
    ELSE LET shorter == SeqsUpTo(n - 1)
         IN  shorter \cup {Append(s, b) : s \in {t \in shorter : Len(t) = n - 1}, b \in Bytes}

\* ---- constants of the program --------------------------------------------

maxRetries == 3

defaultStatusCodes == <<408, 425, 429, 502, 503, 504>>

\* ---- pure functions -------------------------------------------------------

\* slices.Contains
Contains(s, x) == \E i \in 1..Len(s) : s[i] = x

\* delay(retries) = time.Duration(math.Pow(2, retries)) * time.Second, in seconds
delay_Half(r) == 2 ^ (r - 1)
delay_Linear(r) == r
delay(r) == 2 ^ r

\* shouldRetry(res, err, statusCodes)
shouldRetry_IgnoreErr(rs, er, codes) ==
    IF rs # NilRes /\ Contains(codes, rs.StatusCode) THEN TRUE
    ELSE FALSE
shouldRetry(rs, er, codes) ==
    IF er # NilErr THEN TRUE
    ELSE IF rs # NilRes /\ Contains(codes, rs.StatusCode) THEN TRUE
    ELSE FALSE

\* Retry(statusCodes...): the codes the returned interceptor retries on
RetryCodes_Extend(args) == defaultStatusCodes \o args
RetryCodes(args) == IF Len(args) # 0 THEN args ELSE defaultStatusCodes

\* ---- state ----------------------------------------------------------------

VARIABLES
    statusCodes,       \* the arguments Retry was constructed with
    retryStatusCodes,  \* the slice captured by the interceptor's closure
    pc,                \* position of the RoundTrip call
    content,           \* original bytes of the request body (<< >> without body)
    getBody,           \* req.GetBody: "ok", "fail" or "missing" (nil func)
    reqMeta,           \* req.Method, req.URL and req.Header ("none" without call)
    reqBody,           \* req.Body: "nil", "orig" or "snap" (which stream)
    body,              \* local body: "nil" or "snap"
    pos,               \* bytes already read from each stream
    res,               \* local res
    err,               \* local err
    retries,           \* local retries
    timer,             \* duration of the running backoff timer, 0 when none
    timerState,        \* the backoff timer: "none", "running", "fired" or "stopped"
    timerC,            \* values waiting in the timer's channel timer.C (0 or 1)
    ctxDone,           \* req.Context() is cancelled
    returned,          \* what RoundTrip returned: <<res, err>>
    calls,             \* history: downstream calls made by this RoundTrip
    outcomes,          \* history: outcome of each downstream call, as produced
    lastSent,          \* history: body bytes readable by the latest downstream call
    pending,           \* history: backoff requested since the latest downstream call
    waits,             \* history: backoff requested before each downstream call
    cancelSleep,       \* history: retries when the context was cancelled during a
                       \* backoff wait, 0 when it was not
    sent,              \* history: the request as handed to each downstream call
    getBodyCalls,      \* history: calls of req.GetBody made by this RoundTrip
    conc,              \* concurrent RoundTrip calls on one wrapped transport
    chain,             \* a chain of interceptors around a base transport
    adapter,           \* a call of RoundTripper(f).RoundTrip
    cli,               \* a client, its transport settings and one request
    bld,               \* a request builder: its header and query maps
    alias              \* the slice an interceptor captured and the arrays behind the slices

vars == <<statusCodes, retryStatusCodes, pc, content, getBody, reqMeta, reqBody, body, pos,
          res, err, retries, timer, timerState, timerC, ctxDone, returned, calls,
          outcomes, lastSent, pending, waits, cancelSleep, sent, getBodyCalls, conc, chain,
          adapter, cli, bld, alias>>

config == <<statusCodes, retryStatusCodes>>
request == <<content, getBody, reqMeta>>
history == <<calls, outcomes, lastSent, pending, waits, cancelSleep, sent, getBodyCalls>>
sleeper == <<timer, timerState, timerC>>

\* the state of the other components, untouched by a single RoundTrip call
others == <<conc, chain, adapter, cli, bld, alias>>

\* the state of the single RoundTrip call
single == <<pc, request, reqBody, body, pos, res, err, retries, sleeper, ctxDone,
            returned, history>>

NoReturn == <<NilRes, NilErr>>

\* the bytes a reader of stream s still gets
Remaining(s) == SubSeq(content, pos[s] + 1, Len(content))

\* the outcomes the downstream transport may produce on its n-th call: a
\* response or an error, never both (the http.RoundTripper contract); n tells
\* the outcomes of different calls apart
OpenBody == [state |-> "open", read |-> "none", closeErr |-> FALSE]
Response(s, n) == [kind |-> "response", StatusCode |-> s, Body |-> OpenBody, n |-> n]
TransportError(n) == [kind |-> "error", msg |-> "transport", n |-> n]
GetBodyError == [kind |-> "error", msg |-> "getbody", n |-> 0]

Outcomes(n) ==
    {<<Response(s, n), NilErr>> : s \in Statuses} \cup {<<NilRes, TransportError(n)>>}

\* ---- concurrent calls: values ----------------------------------------------

\* the goroutines calling RoundTrip on the same wrapped transport
Procs == {1, 2}

\* the statuses the transport answers with when calls are concurrent
ConcStatuses == {200, 503}

ConcOutcomes(n) ==
    {<<Response(s, n), NilErr>> : s \in ConcStatuses} \cup {<<NilRes, TransportError(n)>>}

\* lines 35-36 and 45: body, res, err and retries are variables of the function
\* literal, so every invocation p has its own
Frame_Shared(p) == 1
Frame(p) == p

\* a body stream of a concurrent call: whose it is and which one; no stream
NoStream == <<"nil", 0>>

IdleProc == [pc |-> "idle", reqBody |-> NoStream, calls |-> 0, out |-> NoReturn,
             slept |-> 0, returned |-> NoReturn]
IdleFrame == [body |-> NoStream, res |-> NilRes, err |-> NilErr, retries |-> 0]
ConcIdle == [proc |-> [p \in Procs |-> IdleProc], frame |-> [f \in Procs |-> IdleFrame]]

\* ---- chain of interceptors: values -------------------------------------------

\* the interceptors of the README (First, Second) and Retry
PlainNames == {"First", "Second"}
Names == PlainNames \cup {"Retry"}

\* the lists of distinct interceptors taken from S
RECURSIVE Lists(_)
Lists(S) ==
    {<< >>} \cup UNION {{<<x>> \o l : l \in Lists(S \ {x})} : x \in S}

\* http.DefaultTransport, the base of the chain
BaseTransport == [name |-> "base"]

\* interceptor(tripper): the transport that wraps tripper
Wrap(name, tripper) == [name |-> name, next |-> tripper]

\* WithInterceptors(interceptors...): each interceptor wraps the transport of
\* the previous step, going from the last of the list to the first, so that
\* the first one is the outermost
RECURSIVE FoldDown(_, _, _)
FoldDown(list, i, t) == IF i = 0 THEN t ELSE FoldDown(list, i - 1, Wrap(list[i], t))
Compose_Forward(list, base) ==
    FoldDown([i \in 1..Len(list) |-> list[Len(list) + 1 - i]], Len(list), base)
Compose(list, base) == FoldDown(list, Len(list), base)

ChainIdle == [phase |-> "none", list |-> << >>, transport |-> BaseTransport,
              stack |-> << >>, events |-> << >>, baseCalls |-> 0, last |-> NoReturn,
              result |-> NoReturn]

\* ---- the round-trip function adapter: values --------------------------------

\* the requests handed to the adapter
Requests == {"GET /a", "POST /b", "PUT /c"}

\* what a function with the transport signature may answer
AdapterOutcomes == ConcOutcomes(1)

AdapterIdle == [pc |-> "idle", f |-> [r \in Requests |-> NoReturn], req |-> "none",
                arg |-> "none", fcalls |-> 0, out |-> NoReturn, result |-> NoReturn]

\* ---- the client and its requests: values ------------------------------------

\* durations are counted in seconds
DefaultTimeout == 30
DefaultIdleConnectionTimeout == 90
DefaultMaxIdleConnections == 100
DefaultMaxConnectionsPerHost == 15
DefaultMaxIdleConnectionsPerHost == 10
DefaultForceAttemptHTTP2 == FALSE

\* the longest option list handed to NewClient
MaxOptions == 2

\* the values an option constructor is called with
OptionValues ==
    [WithTimeout |-> {0, 5},
     WithIdleConnectionTimeout |-> {30},
     WithMaxIdleConnections |-> {20},
     WithMaxConnectionsPerHost |-> {30},
     WithMaxOpenIdleConnectionsPerHost |-> {40},
     WithForceAttemptHTTP2 |-> BOOLEAN]

OptionNames == DOMAIN OptionValues

\* an option is the closure an option constructor returns: the constructor's name
\* and the value it captured
Options == UNION {{<<n, v>> : v \in OptionValues[n]} : n \in OptionNames}

RECURSIVE OptionLists(_)
OptionLists(n) ==
    IF n = 0 THEN {<< >>}
    ELSE LET shorter == OptionLists(n - 1)
         IN  shorter \cup {Append(s, o) : s \in {t \in shorter : Len(t) = n - 1},
                                          o \in Options}

\* the timeouts Request.WithTimeout is called with
RequestTimeouts == {0, 3}

\* the zero value of the client struct
ZeroClient ==
    [httpClient |-> "nil", timeout |-> 0, idleConnectionTimeout |-> 0,
     maxIdleConnections |-> 0, maxIdleConnectionsPerHost |-> 0,
     maxConnectionsPerHost |-> 0, forceAttemptHTTP2 |-> FALSE]

\* the fields of a fresh http.Transport that NewClient assigns
ZeroTransport ==
    [MaxIdleConns |-> 0, MaxConnsPerHost |-> 0, MaxIdleConnsPerHost |-> 0,
     IdleConnTimeout |-> 0, ForceAttemptHTTP2 |-> FALSE]

\* no context has been derived yet
NoTimeout == -1

\* the methods do is called with, and the readers handed to it as body: none, one
\* of the readers net/http can copy, or any other io.Reader; a reader holds
\* len bytes
Methods == {"GET", "POST", "Invalid method"}
Snapshotable == {"bytes.Buffer", "bytes.Reader", "strings.Reader"}
Readers == {"nil", "io.Reader"} \cup Snapshotable
ReaderLens == {0, 1}

\* r.httpReq before a request was built
NilRequest == [isNil |-> TRUE, Body |-> "nil", GetBody |-> "nil"]

\* http.NewRequestWithContext(ctx, method, url, body), for arguments it accepts:
\* GetBody is set for the readers it can copy and for no other; an empty
\* copyable reader becomes http.NoBody
NewRequestWithContext(reader, len) ==
    [isNil |-> FALSE,
     Body |-> IF reader = "nil" THEN "nil"
              ELSE IF reader \in Snapshotable /\ len = 0 THEN "NoBody"
              ELSE "stream",
     GetBody |-> IF reader \in Snapshotable THEN "set" ELSE "nil"]

\* what httpClient.Do answers: a response, an error, or both (a failed
\* CheckRedirect)
DoOutcomes == {<<"res", "nil">>, <<"nil", "err">>, <<"res", "err">>}

\* a nil *Response, and &Response{Response: res}
NilResponse == [kind |-> "nil"]
WrapResponse(r) == [kind |-> "Response", Response |-> r]

\* nothing returned yet
NoResult == <<NilResponse, "none">>

\* lines 178-185 of do: what do returns once httpClient.Do has answered
doReturn_KeepResponse(r, e) == <<WrapResponse(r), e>>
doReturn(r, e) ==
    IF e # "nil" THEN <<NilResponse, e>> ELSE <<WrapResponse(r), e>>

ClientIdle ==
    [pc |-> "idle", built |-> "none", options |-> << >>, c |-> ZeroClient,
     transport |-> ZeroTransport, timeout |-> 0, timeoutSet |-> FALSE,
     applied |-> NoTimeout, httpReq |-> NilRequest, buildErr |-> FALSE, sent |-> 0,
     out |-> <<"nil", "nil">>, result |-> NoResult, bodyResult |-> "none",
     panicAt |-> "none"]

\* the closure of one option, applied to the client
ApplyOption(c, o) ==
    CASE o[1] = "WithTimeout" -> [c EXCEPT !.timeout = o[2]]
      [] o[1] = "WithIdleConnectionTimeout" -> [c EXCEPT !.idleConnectionTimeout = o[2]]
      [] o[1] = "WithMaxIdleConnections" -> [c EXCEPT !.maxIdleConnections = o[2]]
      [] o[1] = "WithMaxConnectionsPerHost" -> [c EXCEPT !.maxConnectionsPerHost = o[2]]
      [] o[1] = "WithMaxOpenIdleConnectionsPerHost" ->
             [c EXCEPT !.maxIdleConnectionsPerHost = o[2]]
      [] o[1] = "WithForceAttemptHTTP2" -> [c EXCEPT !.forceAttemptHTTP2 = o[2]]

\* for _, option := range options { option(client) }
RECURSIVE ApplyOptions(_, _)
ApplyOptions(c, options) ==
    IF options = << >> THEN c
    ELSE ApplyOptions(ApplyOption(c, Head(options)), Tail(options))

\* the timeout do derives the request's context with
EffectiveTimeout_ClientFirst(reqTimeout, clientTimeout) ==
    IF clientTimeout # 0 THEN clientTimeout ELSE reqTimeout

EffectiveTimeout(reqTimeout, clientTimeout) ==
    IF reqTimeout = 0 THEN clientTimeout ELSE reqTimeout

\* ---- the request builder: values --------------------------------------------

\* the most calls made on one builder, and the most values handed to one call
MaxBuilderCalls == 2
MaxValues == 2

\* the header name of WithAuth
Authorization == "Authorization"

\* the keys WithHeader is called with, and the keys a header map may hold
HeaderKeys == {"X-Id", "x-id"}
StoredKeys == HeaderKeys \cup {Authorization}

HeaderValues == {"v1", "v2"}

\* the parameter names and the values (of any type) WithQuery is called with
QueryNames == {"q"}
QueryValues == {<<"string", "1">>, <<"int", 1>>, <<"bool", TRUE>>}

\* the lists of at most n elements of S
RECURSIVE ValueLists(_, _)
ValueLists(S, n) ==
    IF n = 0 THEN {<< >>}
    ELSE LET shorter == ValueLists(S, n - 1)
         IN  shorter \cup {Append(s, v) : s \in {t \in shorter : Len(t) = n - 1}, v \in S}

\* textproto.CanonicalMIMEHeaderKey, which http.Header.Add applies to its key
CanonicalMIMEHeaderKey(key) == IF key = "x-id" THEN "X-Id" ELSE key

\* fmt.Sprintf("%v", value)
Sprintf(value) ==
    CASE value[1] = "string" -> value[2]
      [] value[1] = "int" -> ToString(value[2])
      [] value[1] = "bool" -> IF value[2] THEN "true" ELSE "false"

\* http.Header.Add(key, value)
HeaderAdd_Set(header, key, value) ==
    [header EXCEPT ![CanonicalMIMEHeaderKey(key)] = <<value>>]
HeaderAdd(header, key, value) ==
    [header EXCEPT ![CanonicalMIMEHeaderKey(key)] = Append(@, value)]

\* url.Values.Add(name, value)
ValuesAdd(query, name, value) == [query EXCEPT ![name] = Append(@, value)]

\* for _, value := range values { r.header.Add(key, value) }
RECURSIVE AddHeaders(_, _, _)
AddHeaders(header, key, values) ==
    IF values = << >> THEN header
    ELSE AddHeaders(HeaderAdd(header, key, Head(values)), key, Tail(values))

\* for _, value := range values { r.query.Add(name, fmt.Sprintf("%v", value)) }
RECURSIVE AddQueries(_, _, _)
AddQueries(query, name, values) ==
    IF values = << >> THEN query
    ELSE AddQueries(ValuesAdd(query, name, Sprintf(Head(values))), name, Tail(values))

\* the builder client.Request() returns: empty maps (a key without values is a key
\* the map does not hold); log and ret are history: the calls made, and the
\* builder the latest call returned
NewBuilder ==
    [header |-> [k \in StoredKeys |-> << >>], query |-> [n \in QueryNames |-> << >>],
     log |-> << >>, ret |-> "none"]

\* ---- the captured slice: values -----------------------------------------------

\* the arrays a []int may point into: the one of the package variable
\* defaultStatusCodes, the one of a slice the caller holds, and the one the
\* compiler makes for a call with listed arguments
Arrays == {"default", "caller", "fresh"}

\* no interceptor is built; ref is the array the closure's retryStatusCodes
\* points into; configured, status and retried are history: the codes at the
\* time Retry returned, and the latest response status with the decision made
AliasIdle ==
    [ref |-> "none",
     arrays |-> [default |-> defaultStatusCodes, caller |-> << >>, fresh |-> << >>],
     configured |-> << >>, status |-> 0, retried |-> FALSE]

\* lines 27-31: the array retryStatusCodes points into after Retry(statusCodes...);
\* a slice assignment copies the slice header, not the elements
CapturedArray(args, spread) ==
    IF Len(args) # 0 THEN (IF spread THEN "caller" ELSE "fresh") ELSE "default"

\* the codes the interceptor reads through its slice
CapturedCodes == alias.arrays[alias.ref]

\* ---- construction ---------------------------------------------------------

Init ==
    /\ statusCodes \in StatusCodeArgs
    /\ retryStatusCodes = RetryCodes(statusCodes)
    /\ pc = "idle"
    /\ content = << >>
    /\ getBody = "ok"
    /\ reqMeta = "none"
    /\ reqBody = "nil"
    /\ body = "nil"
    /\ pos = [orig |-> 0, snap |-> 0]
    /\ res = NilRes
    /\ err = NilErr
    /\ retries = 0
    /\ timer = 0
    /\ timerState = "none"
    /\ timerC = 0
    /\ ctxDone = FALSE
    /\ returned = NoReturn
    /\ calls = 0
    /\ outcomes = << >>
    /\ lastSent = << >>
    /\ pending = 0
    /\ waits = << >>
    /\ cancelSleep = 0
    /\ sent = << >>
    /\ getBodyCalls = 0
    /\ conc = ConcIdle
    /\ chain = ChainIdle
    /\ adapter = AdapterIdle
    /\ cli = ClientIdle
    /\ bld = NewBuilder
    /\ alias = AliasIdle

\* ---- the downstream transport --------------------------------------------

\* tripper.RoundTrip(req): the transport reads k bytes of req.Body and answers o
Tripper(o, k) ==
    /\ o \in Outcomes(calls + 1)
    /\ IF reqBody = "nil"
       THEN /\ k = 0
            /\ lastSent' = << >>
            /\ pos' = pos
       ELSE /\ k \in 0..Len(Remaining(reqBody))
            /\ lastSent' = Remaining(reqBody)
            /\ pos' = [pos EXCEPT ![reqBody] = @ + k]
    /\ res' = o[1]
    /\ err' = o[2]
    /\ calls' = calls + 1
    /\ outcomes' = Append(outcomes, o)
    /\ waits' = Append(waits, pending)
    /\ pending' = 0
    /\ sent' = Append(sent, [meta |-> reqMeta, body |-> reqBody])

\* ---- RoundTrip of the retry interceptor -----------------------------------

\* a caller invokes RoundTrip with a request (with or without body)
Call ==
    /\ pc = "idle"
    /\ \E hasBody \in BOOLEAN, c \in SeqsUpTo(MaxBodyLen), g \in {"ok", "fail", "missing"},
          m \in RequestLines :
        /\ hasBody \/ (c = << >> /\ g = "ok")
        /\ content' = c
        /\ getBody' = g
        /\ reqMeta' = m
        /\ reqBody' = IF hasBody THEN "orig" ELSE "nil"
    /\ pc' = "snapshot"
    /\ UNCHANGED <<config, others, body, pos, res, err, retries, sleeper, ctxDone, returned,
                   history>>

\* lines 36-42: snapshot of the body before the first attempt
Snapshot_IgnoreError ==
    /\ pc = "snapshot"
    /\ body' = IF reqBody # "nil" /\ getBody = "ok" THEN "snap" ELSE body
    /\ getBodyCalls' = IF reqBody # "nil" /\ getBody # "missing"
                       THEN getBodyCalls + 1 ELSE getBodyCalls
    /\ pc' = "first"
    /\ UNCHANGED <<config, others, request, reqBody, pos, res, err, retries, sleeper, ctxDone,
                   returned, calls, outcomes, lastSent, pending, waits, cancelSleep, sent>>
Snapshot ==
    /\ pc = "snapshot"
    /\ IF reqBody # "nil"
       THEN CASE getBody = "ok" ->
                    /\ body' = "snap"
                    /\ pc' = "first"
                    /\ UNCHANGED <<err, returned>>
              [] getBody = "fail" ->
                    /\ err' = GetBodyError
                    /\ returned' = <<res, GetBodyError>>
                    /\ pc' = "done"
                    /\ UNCHANGED body
              [] getBody = "missing" ->
                    /\ pc' = "panic"
                    /\ UNCHANGED <<body, err, returned>>
       ELSE /\ pc' = "first"
            /\ UNCHANGED <<body, err, returned>>
    /\ getBodyCalls' = IF reqBody # "nil" /\ getBody # "missing"
                       THEN getBodyCalls + 1 ELSE getBodyCalls
    /\ UNCHANGED <<config, others, request, reqBody, pos, res, retries, sleeper, ctxDone,
                   calls, outcomes, lastSent, pending, waits, cancelSleep, sent>>

\* lines 44-45: the first attempt
FirstAttempt_Counted ==
    /\ pc = "first"
    /\ \E o \in Outcomes(calls + 1), k \in 0..MaxBodyLen : Tripper(o, k)
    /\ retries' = 1
    /\ pc' = "check"
    /\ UNCHANGED <<config, others, request, reqBody, body, sleeper, ctxDone, returned, cancelSleep,
                   getBodyCalls>>
FirstAttempt ==
    /\ pc = "first"
    /\ \E o \in Outcomes(calls + 1), k \in 0..MaxBodyLen : Tripper(o, k)
    /\ retries' = 0
    /\ pc' = "check"
    /\ UNCHANGED <<config, others, request, reqBody, body, sleeper, ctxDone, returned, cancelSleep,
                   getBodyCalls>>

\* line 46: the condition of the for loop
LoopCond_Inclusive == shouldRetry(res, err, retryStatusCodes) /\ retries <= maxRetries
LoopCond_CtxCheck ==
    shouldRetry(res, err, retryStatusCodes) /\ retries < maxRetries /\ ~ctxDone
LoopCond_OffByOne == shouldRetry(res, err, retryStatusCodes) /\ retries < maxRetries - 1
LoopCond == shouldRetry(res, err, retryStatusCodes) /\ retries < maxRetries

\* line 46, condition true: enter the loop body (line 47 picks the branch)
LoopEnter_AlwaysSleep ==
    /\ pc = "check"
    /\ LoopCond
    /\ pc' = "backoff"
    /\ UNCHANGED <<config, others, request, reqBody, body, pos, res, err, retries, sleeper,
                   ctxDone, returned, history>>
LoopEnter ==
    /\ pc = "check"
    /\ LoopCond
    /\ pc' = IF retries # 0 THEN "backoff" ELSE "drain"
    /\ UNCHANGED <<config, others, request, reqBody, body, pos, res, err, retries, sleeper,
                   ctxDone, returned, history>>

\* line 46, condition false, and line 65: return res, err
Return_Drained ==
    /\ pc = "check"
    /\ ~LoopCond
    /\ returned' = <<IF res # NilRes
                     THEN [res EXCEPT !.Body = [state |-> "closed", read |-> "eof",
                                                closeErr |-> FALSE]]
                     ELSE res, err>>
    /\ pc' = "done"
    /\ UNCHANGED <<config, others, request, reqBody, body, pos, res, err, retries, sleeper,
                   ctxDone, history>>
Return_First ==
    /\ pc = "check"
    /\ ~LoopCond
    /\ returned' = outcomes[1]
    /\ pc' = "done"
    /\ UNCHANGED <<config, others, request, reqBody, body, pos, res, err, retries, sleeper,
                   ctxDone, history>>
Return ==
    /\ pc = "check"
    /\ ~LoopCond
    /\ returned' = <<res, err>>
    /\ pc' = "done"
    /\ UNCHANGED <<config, others, request, reqBody, body, pos, res, err, retries, sleeper,
                   ctxDone, history>>

\* lines 47-52 and 95: sleepWithContext starts a timer of delay(retries)
SleepStart ==
    /\ pc = "backoff"
    /\ timer' = delay(retries)
    /\ timerState' = "running"
    /\ timerC' = 0
    /\ pending' = pending + delay(retries)
    /\ pc' = "sleep"
    /\ UNCHANGED <<config, others, request, reqBody, body, pos, res, err, retries, ctxDone,
                   returned, calls, outcomes, lastSent, waits, cancelSleep, sent, getBodyCalls>>

\* the runtime: the delay has passed, the timer fires and sends on timer.C
\* (a channel with room for one value)
TimerExpire ==
    /\ pc \in {"sleep", "stop"}
    /\ timerState = "running"
    /\ timerState' = "fired"
    /\ timerC' = 1
    /\ UNCHANGED <<config, others, request, pc, reqBody, body, pos, res, err, retries, timer,
                   ctxDone, returned, history>>

\* lines 102-103: the select receives from timer.C
SleepTimer ==
    /\ pc = "sleep"
    /\ timerC = 1
    /\ timerC' = 0
    /\ pc' = "wake"
    /\ UNCHANGED <<config, others, request, reqBody, body, pos, res, err, retries, timer,
                   timerState, ctxDone, returned, history>>

\* line 98: the select receives from ctx.Done()
SleepCtxDone ==
    /\ pc = "sleep"
    /\ ctxDone
    /\ pc' = "stop"
    /\ UNCHANGED <<config, others, request, reqBody, body, pos, res, err, retries, sleeper,
                   ctxDone, returned, history>>

\* line 99: timer.Stop().  A running timer is stopped (true).  For a timer that
\* has fired and whose value nobody received, Stop reports false (runtimes
\* before Go 1.23) or discards the value itself and reports true (Go 1.23 on).
TimerStop_AlwaysReceive ==
    /\ pc = "stop"
    /\ timerState' = IF timerState = "running" THEN "stopped" ELSE timerState
    /\ pc' = "recv"
    /\ UNCHANGED <<config, others, request, reqBody, body, pos, res, err, retries, timer,
                   timerC, ctxDone, returned, history>>
TimerStop ==
    /\ pc = "stop"
    /\ \/ /\ timerState = "running"
          /\ timerState' = "stopped"
          /\ pc' = "wake"
          /\ UNCHANGED timerC
       \/ /\ timerState = "fired"
          /\ pc' = "recv"
          /\ UNCHANGED <<timerState, timerC>>
       \/ /\ timerState = "fired"
          /\ timerC' = 0
          /\ pc' = "wake"
          /\ UNCHANGED timerState
    /\ UNCHANGED <<config, others, request, reqBody, body, pos, res, err, retries, timer,
                   ctxDone, returned, history>>

\* line 100: <-timer.C after a Stop that reported false
TimerRecv ==
    /\ pc = "recv"
    /\ timerC = 1
    /\ timerC' = 0
    /\ pc' = "wake"
    /\ UNCHANGED <<config, others, request, reqBody, body, pos, res, err, retries, timer,
                   timerState, ctxDone, returned, history>>

\* line 105: sleepWithContext returns, its timer is out of scope
SleepReturn ==
    /\ pc = "wake"
    /\ timer' = 0
    /\ timerState' = "none"
    /\ timerC' = 0
    /\ pc' = "drain"
    /\ UNCHANGED <<config, others, request, reqBody, body, pos, res, err, retries, ctxDone,
                   returned, history>>

\* line 54 and drainBody: io.Copy reads the discarded response body to its end
\* or stops at a read error, then Close closes it; both errors are dropped
DrainBody_Propagate ==
    /\ pc = "drain"
    /\ \E copyOk \in BOOLEAN, closeOk \in BOOLEAN :
        IF res # NilRes /\ ~copyOk
        THEN /\ res' = NilRes
             /\ err' = [kind |-> "error", msg |-> "drain", n |-> calls]
             /\ returned' = <<NilRes, err'>>
             /\ pc' = "done"
        ELSE /\ res' = IF res # NilRes
                       THEN [res EXCEPT !.Body = [state |-> "closed", read |-> "eof",
                                                  closeErr |-> ~closeOk]]
                       ELSE res
             /\ pc' = "reset"
             /\ UNCHANGED <<err, returned>>
    /\ UNCHANGED <<config, others, request, reqBody, body, pos, retries, sleeper, ctxDone, history>>
DrainBody_Skip ==
    /\ pc = "drain"
    /\ pc' = "reset"
    /\ UNCHANGED <<config, others, request, reqBody, body, pos, res, err, retries, sleeper, ctxDone,
                   returned, history>>
DrainBody ==
    /\ pc = "drain"
    /\ \E copyOk \in BOOLEAN, closeOk \in BOOLEAN :
        res' = IF res # NilRes /\ res.Body.state # "nil"
               THEN [res EXCEPT !.Body = [state |-> "closed",
                                          read |-> IF copyOk THEN "eof" ELSE "error",
                                          closeErr |-> ~closeOk]]
               ELSE res
    /\ pc' = "reset"
    /\ UNCHANGED <<config, others, request, reqBody, body, pos, err, retries, sleeper, ctxDone,
                   returned, history>>

\* lines 56-58: the request body is set to the snapshot
ResetBody_Rewrite ==
    /\ pc = "reset"
    /\ reqBody' = IF reqBody # "nil" THEN body ELSE reqBody
    /\ reqMeta' = "GET /retry"
    /\ pc' = "retry"
    /\ UNCHANGED <<config, others, content, getBody, body, pos, res, err, retries, sleeper,
                   ctxDone, returned, history>>
ResetBody_Fresh ==
    /\ pc = "reset"
    /\ reqBody' = IF reqBody # "nil" THEN body ELSE reqBody
    /\ pos' = IF reqBody # "nil" THEN [pos EXCEPT !.snap = 0] ELSE pos
    /\ getBodyCalls' = IF reqBody # "nil" THEN getBodyCalls + 1 ELSE getBodyCalls
    /\ pc' = "retry"
    /\ UNCHANGED <<config, others, request, body, res, err, retries, sleeper, ctxDone,
                   returned, calls, outcomes, lastSent, pending, waits, cancelSleep, sent>>
ResetBody ==
    /\ pc = "reset"
    /\ reqBody' = IF reqBody # "nil" THEN body ELSE reqBody
    /\ pc' = "retry"
    /\ UNCHANGED <<config, others, request, body, pos, res, err, retries, sleeper, ctxDone,
                   returned, history>>

\* lines 60-61: the next attempt
RetryAttempt ==
    /\ pc = "retry"
    /\ \E o \in Outcomes(calls + 1), k \in 0..MaxBodyLen : Tripper(o, k)
    /\ retries' = retries + 1
    /\ pc' = "check"
    /\ UNCHANGED <<config, others, request, reqBody, body, sleeper, ctxDone, returned, cancelSleep,
                   getBodyCalls>>

\* the caller's context is cancelled (or its deadline passes) during the call
Cancel ==
    /\ pc \notin {"idle", "done", "panic"}
    /\ ~ctxDone
    /\ ctxDone' = TRUE
    /\ cancelSleep' = IF pc = "sleep" THEN retries ELSE 0
    /\ UNCHANGED <<config, others, request, pc, reqBody, body, pos, res, err, retries, sleeper,
                   returned, calls, outcomes, lastSent, pending, waits, sent, getBodyCalls>>

\* the caller has the result; the locals of the call are gone
Finish ==
    /\ pc \in {"done", "panic"}
    /\ pc' = "idle"
    /\ content' = << >>
    /\ getBody' = "ok"
    /\ reqMeta' = "none"
    /\ reqBody' = "nil"
    /\ body' = "nil"
    /\ pos' = [orig |-> 0, snap |-> 0]
    /\ res' = NilRes
    /\ err' = NilErr
    /\ retries' = 0
    /\ timer' = 0
    /\ timerState' = "none"
    /\ timerC' = 0
    /\ ctxDone' = FALSE
    /\ returned' = NoReturn
    /\ calls' = 0
    /\ outcomes' = << >>
    /\ lastSent' = << >>
    /\ pending' = 0
    /\ waits' = << >>
    /\ cancelSleep' = 0
    /\ sent' = << >>
    /\ getBodyCalls' = 0
    /\ UNCHANGED <<config, others>>

Next ==
    \/ Call
    \/ Snapshot
    \/ FirstAttempt
    \/ LoopEnter
    \/ Return
    \/ SleepStart
    \/ TimerExpire
    \/ SleepTimer
    \/ SleepCtxDone
    \/ TimerStop
    \/ TimerRecv
    \/ SleepReturn
    \/ DrainBody
    \/ ResetBody
    \/ RetryAttempt
    \/ Cancel
    \/ Finish

Spec == Init /\ [][Next]_vars

\* The goroutine running sleepWithContext is scheduled: each of its own steps
\* is taken once it stays possible.  Nothing is promised about the timer
\* firing (TimerExpire) nor about the context (Cancel).
SleepFairness ==
    /\ WF_vars(SleepTimer)
    /\ WF_vars(SleepCtxDone)
    /\ WF_vars(TimerStop)
    /\ WF_vars(TimerRecv)
    /\ WF_vars(SleepReturn)

FairSpec == Spec /\ SleepFairness

\* Every step of the goroutine running RoundTrip is taken once it stays
\* possible: the downstream transport answers every call, GetBody and the reads
\* and Close of a discarded response body come back, and a running backoff timer
\* fires in the end.  Nothing is promised about the context (Cancel).
CallFairness ==
    /\ SleepFairness
    /\ WF_vars(Snapshot)
    /\ WF_vars(FirstAttempt)
    /\ WF_vars(LoopEnter)
    /\ WF_vars(Return)
    /\ WF_vars(SleepStart)
    /\ WF_vars(TimerExpire)
    /\ WF_vars(DrainBody)
    /\ WF_vars(ResetBody)
    /\ WF_vars(RetryAttempt)

LiveSpec == Spec /\ CallFairness

\* ---- concurrent RoundTrip calls on one wrapped transport -------------------
\* Each goroutine p runs the function literal of lines 35-67 on its own request.
\* The steps are those of the single call; the timer and the drain of the
\* discarded response, which touch nothing but the call's own timer and
\* response, are folded into CSleep and CReset.

CProc(p) == conc.proc[p]
CFrame(p) == conc.frame[Frame(p)]
CSet(p, proc, frame) ==
    conc' = [proc |-> [conc.proc EXCEPT ![p] = proc],
             frame |-> [conc.frame EXCEPT ![Frame(p)] = frame]]

CLoopCond(p) ==
    shouldRetry(CFrame(p).res, CFrame(p).err, retryStatusCodes) /\ CFrame(p).retries < maxRetries

\* lines 36-42: p is called with a request; a body is snapshot with GetBody
CCall(p) ==
    /\ CProc(p).pc = "idle"
    /\ \E hasBody \in BOOLEAN :
        CSet(p, [IdleProc EXCEPT !.pc = "first",
                                 !.reqBody = IF hasBody THEN <<"orig", p>> ELSE NoStream],
                [IdleFrame EXCEPT !.body = IF hasBody THEN <<"snap", p>> ELSE NoStream])
    /\ UNCHANGED <<config, single, chain, adapter, cli, bld, alias>>

\* lines 44-45: the first attempt of p
CFirst(p) ==
    /\ CProc(p).pc = "first"
    /\ \E o \in ConcOutcomes(CProc(p).calls + 1) :
        CSet(p, [CProc(p) EXCEPT !.pc = "check", !.calls = @ + 1, !.out = o],
                [CFrame(p) EXCEPT !.res = o[1], !.err = o[2], !.retries = 0])
    /\ UNCHANGED <<config, single, chain, adapter, cli, bld, alias>>

\* line 46, condition true
CEnter(p) ==
    /\ CProc(p).pc = "check"
    /\ CLoopCond(p)
    /\ CSet(p, [CProc(p) EXCEPT !.pc = IF CFrame(p).retries # 0 THEN "sleep" ELSE "reset"],
               CFrame(p))
    /\ UNCHANGED <<config, single, chain, adapter, cli, bld, alias>>

\* lines 47-52: the backoff wait of p
CSleep(p) ==
    /\ CProc(p).pc = "sleep"
    /\ CSet(p, [CProc(p) EXCEPT !.pc = "reset", !.slept = @ + delay(CFrame(p).retries)],
               CFrame(p))
    /\ UNCHANGED <<config, single, chain, adapter, cli, bld, alias>>

\* lines 54-58: drain of the discarded response, reset of the request body
CReset(p) ==
    /\ CProc(p).pc = "reset"
    /\ CSet(p, [CProc(p) EXCEPT !.pc = "retry",
                                !.reqBody = IF @ # NoStream THEN CFrame(p).body ELSE @],
               [CFrame(p) EXCEPT !.res = IF @ # NilRes
                                         THEN [@ EXCEPT !.Body = [state |-> "closed",
                                                                  read |-> "eof",
                                                                  closeErr |-> FALSE]]
                                         ELSE @])
    /\ UNCHANGED <<config, single, chain, adapter, cli, bld, alias>>

\* lines 60-61: the next attempt of p
CRetry(p) ==
    /\ CProc(p).pc = "retry"
    /\ \E o \in ConcOutcomes(CProc(p).calls + 1) :
        CSet(p, [CProc(p) EXCEPT !.pc = "check", !.calls = @ + 1, !.out = o],
                [CFrame(p) EXCEPT !.res = o[1], !.err = o[2], !.retries = @ + 1])
    /\ UNCHANGED <<config, single, chain, adapter, cli, bld, alias>>

\* line 46, condition false, and line 65
CReturn(p) ==
    /\ CProc(p).pc = "check"
    /\ ~CLoopCond(p)
    /\ CSet(p, [CProc(p) EXCEPT !.pc = "done",
                                !.returned = <<CFrame(p).res, CFrame(p).err>>],
               CFrame(p))
    /\ UNCHANGED <<config, single, chain, adapter, cli, bld, alias>>

\* the caller of p has its result
CFinish(p) ==
    /\ CProc(p).pc = "done"
    /\ CSet(p, IdleProc, IdleFrame)
    /\ UNCHANGED <<config, single, chain, adapter, cli, bld, alias>>

ConcNext ==
    \E p \in Procs :
        \/ CCall(p)
        \/ CFirst(p)
        \/ CEnter(p)
        \/ CSleep(p)
        \/ CReset(p)
        \/ CRetry(p)
        \/ CReturn(p)
        \/ CFinish(p)

ConcSpec == Init /\ [][ConcNext]_vars

\* ---- a request through a chain of interceptors ------------------------------
\* The stack holds the RoundTrip calls in progress, outermost first.  Retry is
\* the loop of lines 44-63 without its backoff wait, drain and body reset,
\* which do not call the downstream transport.

ChainTop == chain.stack[Len(chain.stack)]
NewCall(t) == [t |-> t, st |-> "enter", retries |-> 0, out |-> NoReturn]

\* the top call returns o to its caller
Returned(o) ==
    LET n == Len(chain.stack)
    IN  IF n = 1
        THEN [chain EXCEPT !.stack = << >>, !.result = o, !.phase = "done"]
        ELSE [chain EXCEPT !.stack = [SubSeq(chain.stack, 1, n - 1) EXCEPT
                                         ![n - 1].st = "back", ![n - 1].out = o]]

\* the top call calls the transport it wraps
Descend ==
    LET n == Len(chain.stack)
    IN  Append([chain.stack EXCEPT ![n].st = "wait"], NewCall(ChainTop.t.next))

\* NewClient(WithInterceptors(list...)) builds the transport of the client
ChainBuild ==
    /\ chain.phase = "none"
    /\ \E list \in Lists(Names) :
        chain' = [chain EXCEPT !.phase = "built", !.list = list,
                               !.transport = Compose(list, BaseTransport)]
    /\ UNCHANGED <<config, single, conc, adapter, cli, bld, alias>>

\* the client sends a request: RoundTrip of the outermost transport
ChainCall ==
    /\ chain.phase = "built"
    /\ chain' = [chain EXCEPT !.phase = "running", !.stack = <<NewCall(chain.transport)>>]
    /\ UNCHANGED <<config, single, conc, adapter, cli, bld, alias>>

\* README interceptor: logs "started", then calls rt.RoundTrip(req)
PlainEnter ==
    /\ chain.phase = "running"
    /\ ChainTop.t.name \in PlainNames
    /\ ChainTop.st = "enter"
    /\ chain' = [chain EXCEPT !.stack = Descend,
                               !.events = Append(@, <<ChainTop.t.name, "started">>)]
    /\ UNCHANGED <<config, single, conc, adapter, cli, bld, alias>>

\* README interceptor: logs "finished", then returns res, err
PlainExit ==
    /\ chain.phase = "running"
    /\ ChainTop.t.name \in PlainNames
    /\ ChainTop.st = "back"
    /\ chain' = [Returned(ChainTop.out) EXCEPT
                    !.events = Append(@, <<ChainTop.t.name, "finished">>)]
    /\ UNCHANGED <<config, single, conc, adapter, cli, bld, alias>>

\* the base transport sends the request and answers
BaseCall ==
    /\ chain.phase = "running"
    /\ ChainTop.t.name = "base"
    /\ \E o \in ConcOutcomes(chain.baseCalls + 1) :
        chain' = [Returned(o) EXCEPT !.events = Append(@, <<"base", "called">>),
                                     !.baseCalls = @ + 1,
                                     !.last = o]
    /\ UNCHANGED <<config, single, conc, adapter, cli, bld, alias>>

\* Retry, line 44: the first attempt
RetryEnter ==
    /\ chain.phase = "running"
    /\ ChainTop.t.name = "Retry"
    /\ ChainTop.st = "enter"
    /\ chain' = [chain EXCEPT !.stack = Descend]
    /\ UNCHANGED <<config, single, conc, adapter, cli, bld, alias>>

\* Retry, line 46: the loop condition on the outcome that came back
ChainRetryCond_Inclusive ==
    /\ shouldRetry(ChainTop.out[1], ChainTop.out[2], retryStatusCodes)
    /\ ChainTop.retries <= maxRetries
ChainRetryCond ==
    /\ shouldRetry(ChainTop.out[1], ChainTop.out[2], retryStatusCodes)
    /\ ChainTop.retries < maxRetries

\* Retry, lines 46-61: one more attempt (retries counts the attempts repeated)
RetryAgain ==
    /\ chain.phase = "running"
    /\ ChainTop.t.name = "Retry"
    /\ ChainTop.st = "back"
    /\ ChainRetryCond
    /\ chain' = [chain EXCEPT
                    !.stack = [Descend EXCEPT ![Len(chain.stack)].retries = @ + 1]]
    /\ UNCHANGED <<config, single, conc, adapter, cli, bld, alias>>

\* Retry, lines 46 and 65: return res, err
RetryExit ==
    /\ chain.phase = "running"
    /\ ChainTop.t.name = "Retry"
    /\ ChainTop.st = "back"
    /\ ~ChainRetryCond
    /\ chain' = Returned(ChainTop.out)
    /\ UNCHANGED <<config, single, conc, adapter, cli, bld, alias>>

\* the caller has the result
ChainFinish ==
    /\ chain.phase = "done"
    /\ chain' = ChainIdle
    /\ UNCHANGED <<config, single, conc, adapter, cli, bld, alias>>

ChainNext ==
    \/ ChainBuild
    \/ ChainCall
    \/ PlainEnter
    \/ PlainExit
    \/ BaseCall
    \/ RetryEnter
    \/ RetryAgain
    \/ RetryExit
    \/ ChainFinish

ChainSpec == Init /\ [][ChainNext]_vars

\* ---- RoundTripper(f).RoundTrip(req) ------------------------------------------

\* a caller invokes RoundTrip of the adapter of some function f with a request
AdapterCall ==
    /\ adapter.pc = "idle"
    /\ \E f \in [Requests -> AdapterOutcomes], r \in Requests :
        adapter' = [AdapterIdle EXCEPT !.pc = "call", !.f = f, !.req = r]
    /\ UNCHANGED <<config, single, conc, chain, cli, bld, alias>>

\* round_tripper.go line 8: rt(req)
AdapterInvoke_Twice ==
    /\ adapter.pc \in {"call", "ret"}
    /\ adapter.fcalls < 2
    /\ adapter' = [adapter EXCEPT !.pc = "ret", !.arg = adapter.req, !.fcalls = @ + 1,
                                  !.out = adapter.f[adapter.req]]
    /\ UNCHANGED <<config, single, conc, chain, cli, bld, alias>>
AdapterInvoke ==
    /\ adapter.pc = "call"
    /\ adapter' = [adapter EXCEPT !.pc = "ret", !.arg = adapter.req, !.fcalls = @ + 1,
                                  !.out = adapter.f[adapter.req]]
    /\ UNCHANGED <<config, single, conc, chain, cli, bld, alias>>

\* round_tripper.go line 8: return what rt answered
AdapterReturn ==
    /\ adapter.pc = "ret"
    /\ adapter' = [adapter EXCEPT !.pc = "done", !.result = adapter.out]
    /\ UNCHANGED <<config, single, conc, chain, cli, bld, alias>>

\* the caller has the result
AdapterFinish ==
    /\ adapter.pc = "done"
    /\ adapter' = AdapterIdle
    /\ UNCHANGED <<config, single, conc, chain, cli, bld, alias>>

AdapterNext ==
    \/ AdapterCall
    \/ AdapterInvoke
    \/ AdapterReturn
    \/ AdapterFinish

AdapterSpec == Init /\ [][AdapterNext]_vars

\* ---- the client and its requests: actions -----------------------------------

\* NewClient(options...): t is what http.DefaultClient.Transport holds; the type
\* assertion on a nil interface value panics
NewClient(options, t) ==
    /\ cli.pc = "idle"
    /\ IF t = "nil"
       THEN cli' = [cli EXCEPT !.pc = "panic", !.options = options,
                            !.panicAt = "NewClient"]
       ELSE LET client == ApplyOptions(
                    [ZeroClient EXCEPT
                        !.timeout = DefaultTimeout,
                        !.idleConnectionTimeout = DefaultIdleConnectionTimeout,
                        !.maxIdleConnections = DefaultMaxIdleConnections,
                        !.maxConnectionsPerHost = DefaultMaxConnectionsPerHost,
                        !.maxIdleConnectionsPerHost = DefaultMaxIdleConnectionsPerHost,
                        !.forceAttemptHTTP2 = DefaultForceAttemptHTTP2],
                    options)
            IN  cli' = [cli EXCEPT
                    !.pc = "client", !.built = "NewClient", !.options = options,
                    !.c = client,
                    !.transport =
                        [MaxIdleConns |-> client.maxIdleConnectionsPerHost,
                         MaxConnsPerHost |-> client.maxIdleConnections,
                         MaxIdleConnsPerHost |-> client.maxIdleConnections,
                         IdleConnTimeout |-> client.idleConnectionTimeout,
                         ForceAttemptHTTP2 |-> client.forceAttemptHTTP2]]
    /\ UNCHANGED <<config, single, conc, chain, adapter, bld, alias>>

\* a client written as a struct literal inside the package: &client{} or
\* &client{httpClient: ...}, the http.Client with a plain transport or with a
\* transport wrapped by Retry()
ClientLiteral(h) ==
    /\ cli.pc = "idle"
    /\ cli' = [cli EXCEPT !.pc = "client", !.built = "literal",
                          !.c = [ZeroClient EXCEPT !.httpClient = h]]
    /\ UNCHANGED <<config, single, conc, chain, adapter, bld, alias>>

\* client.Request(): a request without a timeout of its own
Request ==
    /\ cli.pc = "client"
    /\ cli' = [cli EXCEPT !.pc = "request", !.timeout = 0, !.timeoutSet = FALSE]
    /\ UNCHANGED <<config, single, conc, chain, adapter, bld, alias>>

\* request.WithTimeout(timeout)
WithTimeout(timeout) ==
    /\ cli.pc = "request"
    /\ cli' = [cli EXCEPT !.timeout = timeout, !.timeoutSet = TRUE]
    /\ UNCHANGED <<config, single, conc, chain, adapter, bld, alias>>

\* request.do, reached through Get, Head, Post, Put, ...: urlOk tells whether
\* http.NewRequestWithContext accepts the url, reader and len are the body
\* argument, o is what httpClient.Do answers.  A nil httpClient panics in Do;
\* behind a transport wrapped by Retry, a request with a body and without
\* GetBody panics in the interceptor's snapshot (interceptor_retry.go line 38).
do(method, urlOk, reader, len, o) ==
    /\ cli.pc = "request"
    /\ LET timeout == EffectiveTimeout(cli.timeout, cli.c.timeout)
           ok == method # "Invalid method" /\ urlOk
           req == NewRequestWithContext(reader, len)
       IN  IF ~ok
           THEN cli' = [cli EXCEPT !.applied = timeout, !.buildErr = TRUE,
                                   !.result = <<NilResponse, "builderr">>,
                                   !.pc = "done"]
           ELSE IF cli.c.httpClient = "nil"
           THEN cli' = [cli EXCEPT !.applied = timeout, !.httpReq = req,
                                   !.pc = "panic", !.panicAt = "httpClient.Do"]
           ELSE IF cli.c.httpClient = "retry" /\ req.Body # "nil" /\ req.GetBody = "nil"
           THEN cli' = [cli EXCEPT !.applied = timeout, !.httpReq = req, !.sent = 1,
                                   !.pc = "panic", !.panicAt = "Retry"]
           ELSE cli' = [cli EXCEPT !.applied = timeout, !.httpReq = req, !.sent = 1,
                                   !.out = o, !.result = doReturn(o[1], o[2]),
                                   !.pc = "done"]
    /\ UNCHANGED <<config, single, conc, chain, adapter, bld, alias>>

\* request.Body(), before or after the request was executed: GetBody of the
\* built request is called, also when the request has none
Body ==
    /\ cli.pc \in {"request", "done"}
    /\ cli.bodyResult = "none"
    /\ IF cli.httpReq.isNil
       THEN cli' = [cli EXCEPT !.bodyResult = "ErrNoBody"]
       ELSE IF cli.httpReq.GetBody = "nil"
       THEN cli' = [cli EXCEPT !.bodyResult = "panic", !.pc = "panic",
                               !.panicAt = "Body"]
       ELSE cli' = [cli EXCEPT !.bodyResult =
                       IF cli.httpReq.Body = "NoBody" THEN "empty" ELSE "content"]
    /\ UNCHANGED <<config, single, conc, chain, adapter, bld, alias>>

\* the program ends; the next one starts afresh
ClientFinish ==
    /\ cli.pc \in {"done", "panic"}
    /\ cli' = ClientIdle
    /\ UNCHANGED <<config, single, conc, chain, adapter, bld, alias>>

ClientNext ==
    \/ \E options \in OptionLists(MaxOptions), t \in {"nil", "transport"} :
           NewClient(options, t)
    \/ \E h \in {"nil", "plain", "retry"} : ClientLiteral(h)
    \/ Request
    \/ \E timeout \in RequestTimeouts : WithTimeout(timeout)
    \/ \E method \in Methods, urlOk \in BOOLEAN, reader \in Readers,
          len \in ReaderLens, o \in DoOutcomes :
           /\ reader = "nil" => len = 0
           /\ do(method, urlOk, reader, len, o)
    \/ Body
    \/ ClientFinish

ClientSpec == Init /\ [][ClientNext]_vars

\* ---- the request builder: actions -------------------------------------------

\* r.WithHeader(key, values...)
WithHeader(key, values) ==
    /\ Len(bld.log) < MaxBuilderCalls
    /\ bld' = [bld EXCEPT !.header = AddHeaders(@, key, values),
                          !.log = Append(@, <<"WithHeader", key, values>>),
                          !.ret = "r"]
    /\ UNCHANGED <<config, single, conc, chain, adapter, cli, alias>>

\* r.WithAuth(values...)
WithAuth(values) ==
    /\ Len(bld.log) < MaxBuilderCalls
    /\ bld' = [bld EXCEPT !.header = AddHeaders(@, Authorization, values),
                          !.log = Append(@, <<"WithAuth", Authorization, values>>),
                          !.ret = "r"]
    /\ UNCHANGED <<config, single, conc, chain, adapter, cli, alias>>

\* r.WithQuery(name, values...)
WithQuery(name, values) ==
    /\ Len(bld.log) < MaxBuilderCalls
    /\ bld' = [bld EXCEPT !.query = AddQueries(@, name, values),
                          !.log = Append(@, <<"WithQuery", name, values>>),
                          !.ret = "r"]
    /\ UNCHANGED <<config, single, conc, chain, adapter, cli, alias>>

\* the builder is dropped, client.Request() makes the next one
BuilderDiscard ==
    /\ bld.log # << >>
    /\ bld' = NewBuilder
    /\ UNCHANGED <<config, single, conc, chain, adapter, cli, alias>>

BuilderNext ==
    \/ \E key \in HeaderKeys, values \in ValueLists(HeaderValues, MaxValues) :
           WithHeader(key, values)
    \/ \E values \in ValueLists(HeaderValues, MaxValues) : WithAuth(values)
    \/ \E name \in QueryNames, values \in ValueLists(QueryValues, MaxValues) :
           WithQuery(name, values)
    \/ BuilderDiscard

BuilderSpec == Init /\ [][BuilderNext]_vars

\* ---- the captured slice: actions ----------------------------------------------

\* Retry(statusCodes...): called with listed arguments, Retry(418, 503), or with
\* a slice of the caller, Retry(codes...), which passes that slice itself
Retry(args, spread) ==
    /\ alias.ref = "none"
    /\ LET a == CapturedArray(args, spread)
           filled == [alias.arrays EXCEPT
                         !.caller = IF spread THEN args ELSE @,
                         !.fresh = IF Len(args) # 0 /\ a = "fresh" THEN args ELSE @]
       IN  alias' = [alias EXCEPT !.ref = a, !.arrays = filled, !.configured = filled[a]]
    /\ UNCHANGED <<config, single, conc, chain, adapter, cli, bld>>

\* the caller writes an element of the slice it passed: codes[i] = v
CallerWrite(i, v) ==
    /\ alias.ref # "none"
    /\ i \in 1..Len(alias.arrays.caller)
    /\ alias' = [alias EXCEPT !.arrays.caller[i] = v]
    /\ UNCHANGED <<config, single, conc, chain, adapter, cli, bld>>

\* a RoundTrip of the interceptor gets a response with status s and decides
\* with shouldRetry(res, err, retryStatusCodes); it writes no array
AliasRoundTrip(s) ==
    /\ alias.ref # "none"
    /\ alias' = [alias EXCEPT !.status = s,
                              !.retried = shouldRetry(Response(s, 1), NilErr, CapturedCodes)]
    /\ UNCHANGED <<config, single, conc, chain, adapter, cli, bld>>

\* the interceptor is dropped
AliasDiscard ==
    /\ alias.ref # "none"
    /\ alias' = AliasIdle
    /\ UNCHANGED <<config, single, conc, chain, adapter, cli, bld>>

AliasNext ==
    \/ \E args \in StatusCodeArgs, spread \in BOOLEAN : Retry(args, spread)
    \/ \E i \in 1..2, v \in Statuses : CallerWrite(i, v)
    \/ \E s \in Statuses : AliasRoundTrip(s)
    \/ AliasDiscard

AliasSpec == Init /\ [][AliasNext]_vars

TypeOK ==
    /\ statusCodes \in StatusCodeArgs
    /\ pc \in {"idle", "snapshot", "first", "check", "backoff", "sleep", "stop", "recv",
               "wake", "drain", "reset", "retry", "done", "panic"}
    /\ timerState \in {"none", "running", "fired", "stopped"}
    /\ timerC \in {0, 1}
    /\ reqBody \in {"nil", "orig", "snap"}
    /\ body \in {"nil", "snap"}
    /\ retries \in 0..maxRetries
    /\ ctxDone \in BOOLEAN
    /\ calls = Len(outcomes)
    /\ calls = Len(waits)
    /\ cancelSleep \in 0..(maxRetries - 1)

\* ---- vocabulary of the properties -----------------------------------------

\* the retryable set a constructor call configures, stated as a set
DefaultSet == {408, 425, 429, 502, 503, 504}
ConfiguredSet ==
    IF statusCodes = << >> THEN DefaultSet
    ELSE {statusCodes[i] : i \in 1..Len(statusCodes)}

IsResponse(o) == o[1] # NilRes /\ o[2] = NilErr
IsError(o) == o[2] # NilErr

\* the outcome is a transport error or a response with a configured status
Retryable(o) == IsError(o) \/ (IsResponse(o) /\ o[1].StatusCode \in ConfiguredSet)

\* the call is inside the loop body: a further attempt is being prepared
InLoopBody == pc \in {"backoff", "sleep", "stop", "recv", "wake", "drain", "reset", "retry"}

\* every downstream call so far answered with status s
AllStatus(s) == \A i \in 1..calls : IsResponse(outcomes[i]) /\ outcomes[i][1].StatusCode = s
AllErrors == \A i \in 1..calls : IsError(outcomes[i])

\* the transport of the scenario: 503 on the first two calls, 200 afterwards
ScenarioStatus(i) == IF i <= 2 THEN 503 ELSE 200
InScenario ==
    /\ statusCodes = << >>
    /\ calls >= 1
    /\ \A i \in 1..calls : IsResponse(outcomes[i]) /\ outcomes[i][1].StatusCode = ScenarioStatus(i)

\* ---- properties -----------------------------------------------------------

\* C1: one RoundTrip call invokes the downstream transport at most 4 times
\* (the first attempt plus at most 3 retries), whatever the outcomes are.
AtMostFourCalls == calls <= 4
AtMostFourCalls_Witness == pc = "done" /\ calls = 4

\* C2: after any attempt a further attempt is made if and only if fewer than
\* 3 retries have been made and the outcome is a transport error or a response
\* with a configured status; a first response with another status (200) is
\* returned after exactly one downstream call.
RetryIffRetryable ==
    /\ InLoopBody => (calls - 1 < 3 /\ Retryable(outcomes[calls]))
    /\ (pc = "done" /\ calls >= 1) => ~(calls - 1 < 3 /\ Retryable(outcomes[calls]))
    /\ \A i \in 1..(calls - 1) : i - 1 < 3 /\ Retryable(outcomes[i])
    /\ (pc = "done" /\ calls >= 1 /\ ~Retryable(outcomes[1])) =>
            (calls = 1 /\ returned = outcomes[1])
RetryIffRetryable_Witness ==
    /\ pc = "done"
    /\ calls = 1
    /\ IsResponse(outcomes[1])
    /\ outcomes[1][1].StatusCode = 200
    /\ returned = outcomes[1]

\* C3: for a request with a body, the bytes the downstream transport can read
\* on every attempt are the original body.
BodyIdenticalOnEveryAttempt ==
    (reqBody # "nil" /\ calls >= 1) => lastSent = content

\* C4: when every downstream call answers the same status of the default set
\* (default configuration), or every call fails, the transport is invoked
\* exactly 4 times and the outcome of the 4th call is returned.
AlwaysRetryableFourCalls ==
    (/\ pc = "done"
     /\ calls >= 1
     /\ \/ statusCodes = << >> /\ \E s \in DefaultSet : AllStatus(s)
        \/ AllErrors)
    => (calls = 4 /\ returned = outcomes[4])
AlwaysRetryableFourCalls_Witness ==
    /\ pc = "done"
    /\ statusCodes = << >>
    /\ calls = 4
    /\ AllStatus(503)
    /\ returned = outcomes[4]

\* C5: a RoundTrip call that made at least one attempt returns once, and
\* returns the (response, error) pair of its last downstream call as produced.
ReturnsLastOutcome ==
    /\ (pc = "done" /\ calls >= 1) => returned = outcomes[calls]
    /\ pc # "done" => returned = NoReturn
ReturnsLastOutcome_Witness ==
    /\ pc = "done"
    /\ calls = 3
    /\ returned = outcomes[3]
    /\ returned # outcomes[1]

\* C6 (as stated): the backoff before retry n is 2^(n-1) seconds (1, 2, 4) and
\* there is none before the first attempt.  Retry n is downstream call n+1.
BackoffOneTwoFour ==
    \A i \in 1..calls : waits[i] = (IF i = 1 THEN 0 ELSE 2 ^ (i - 2))

\* C6 (amended): the backoff requested before retry n is 2^(n-1) seconds for
\* n = 2, 3 (2 and 4); none before the first attempt and before retry 1.
BackoffTwoFour ==
    \A i \in 1..calls : waits[i] = (IF i <= 2 THEN 0 ELSE 2 ^ (i - 2))
BackoffTwoFour_Witness == calls = 4 /\ waits = <<0, 0, 2, 4>>

\* C7: the first retry (attempt counter 0) is issued without backoff wait; a
\* backoff wait happens only before a retry made with the counter above 0.
FirstRetryImmediate ==
    /\ pc \in {"backoff", "sleep", "stop", "recv", "wake"} => retries > 0
    /\ (calls = 1 /\ retries = 0) => pending = 0
    /\ calls >= 2 => waits[2] = 0
FirstRetryImmediate_Witness == pc = "check" /\ retries = 1 /\ calls = 2 /\ waits[2] = 0

\* C8 (as stated): default set, transport answers 503, 503, 200: exactly 3
\* attempts, the 200 is returned, one backoff wait, of 1 second, before the
\* third attempt.
ScenarioOneSecond ==
    (pc = "done" /\ InScenario) =>
        (calls = 3 /\ returned = outcomes[3] /\ waits = <<0, 0, 1>>)

\* C8 (amended): same scenario: exactly 3 attempts, the 200 is returned, one
\* backoff wait, of 2 seconds, before the third attempt.
ScenarioTwoSeconds ==
    (pc = "done" /\ InScenario) =>
        (/\ calls = 3
         /\ returned = outcomes[3]
         /\ returned[1].StatusCode = 200
         /\ waits = <<0, 0, 2>>)
ScenarioTwoSeconds_Witness ==
    pc = "done" /\ InScenario /\ calls = 3 /\ waits[3] = 2

\* C9: the codes that trigger a retry are exactly the codes passed to Retry
\* when some are passed (they replace the defaults), and the default set,
\* which has 429, 503 and 504, when none is passed.
RetrySetIsConfigured ==
    /\ {retryStatusCodes[i] : i \in 1..Len(retryStatusCodes)} = ConfiguredSet
    /\ statusCodes = << >> => {429, 503, 504} \subseteq ConfiguredSet
    /\ (InLoopBody /\ IsResponse(outcomes[calls])) =>
            outcomes[calls][1].StatusCode \in ConfiguredSet
    /\ (pc = "done" /\ calls >= 1 /\ calls < 4 /\ IsResponse(outcomes[calls])) =>
            outcomes[calls][1].StatusCode \notin ConfiguredSet
    /\ (/\ pc = "done"
        /\ statusCodes = <<418>>
        /\ calls >= 1
        /\ IsResponse(outcomes[1])
        /\ outcomes[1][1].StatusCode \in {500, 503}) =>
            (calls = 1 /\ returned = outcomes[1])
RetrySetIsConfigured_Witness ==
    /\ pc = "done"
    /\ statusCodes = <<418>>
    /\ calls = 1
    /\ IsResponse(returned)
    /\ returned[1].StatusCode = 503

\* C10: when the request has a body and GetBody fails, RoundTrip returns that
\* error with no response and the downstream transport is never invoked.
GetBodyFailureAborts ==
    /\ (reqBody # "nil" /\ getBody = "fail") => calls = 0
    /\ (reqBody # "nil" /\ getBody = "fail" /\ pc \notin {"idle", "snapshot"}) =>
            (pc = "done" /\ returned = <<NilRes, GetBodyError>>)
GetBodyFailureAborts_Witness ==
    pc = "done" /\ reqBody # "nil" /\ getBody = "fail" /\ returned[2] = GetBodyError

\* C11: a backoff wait does not outlive the cancellation of the context: once
\* the context is cancelled the wait returns, whether or not the timer ever
\* fires; the receive after a failed Stop always finds a value; and when the
\* wait returns its timer is stopped or has fired.
InSleep == pc \in {"sleep", "stop", "recv", "wake"}
SleepEndsOnCancel ==
    /\ [](pc = "recv" => timerC = 1)
    /\ [](pc = "wake" => (timerState \in {"stopped", "fired"} /\ timerC = 0))
    /\ ((InSleep /\ ctxDone) ~> ~InSleep)
SleepEndsOnCancel_Witness ==
    pc = "wake" /\ ctxDone /\ timerState = "stopped"

\* every downstream call made after a cancellation that came during a backoff
\* wait (the calls after call cancelSleep + 1) failed
FailsFastAfterCancel ==
    /\ cancelSleep > 0
    /\ \A i \in (cancelSleep + 2)..calls : IsError(outcomes[i])

\* C12 (as stated): when the context is cancelled during a backoff wait and
\* the transport fails on every later call, exactly one further downstream
\* attempt is made, whichever wait was interrupted.
CancelOneMoreAttempt ==
    (pc = "done" /\ FailsFastAfterCancel) => calls = cancelSleep + 2

\* C12 (amended): in that case all remaining retries are made: 2 further
\* attempts when the wait before retry 2 was interrupted, 1 when the wait
\* before retry 3 was, 4 attempts in all, and the last error is returned.
CancelRemainingAttempts ==
    (pc = "done" /\ FailsFastAfterCancel) =>
        (/\ calls = 4
         /\ calls - (cancelSleep + 1) = maxRetries - cancelSleep
         /\ IsError(returned)
         /\ returned = outcomes[4])
CancelRemainingAttempts_Witness ==
    pc = "done" /\ cancelSleep = 1 /\ FailsFastAfterCancel /\ calls = 4 /\ IsError(returned)

\* C13: attempts are made one after the other, and when the next attempt is
\* issued the response of the previous one, if there is one, has had its body
\* read out (to its end, or up to a read error) and closed.
DrainedBeforeNextAttempt ==
    /\ calls = Len(outcomes)
    /\ pc = "retry" =>
          /\ retries = calls - 1
          /\ IsResponse(outcomes[calls]) =>
                /\ res # NilRes
                /\ res.n = calls
                /\ res.Body.state = "closed"
                /\ res.Body.read \in {"eof", "error"}
    /\ (calls >= 1 /\ res # NilRes /\ res.Body.state = "open") =>
          (res.n = calls /\ pc \in {"check", "backoff", "sleep", "stop", "recv", "wake",
                                    "drain", "done"})
DrainedBeforeNextAttempt_Witness ==
    /\ pc = "retry"
    /\ calls = 2
    /\ res # NilRes
    /\ res.Body.state = "closed"
    /\ res.Body.read = "eof"

\* C14: when reading out the discarded body fails, or closing it fails, the
\* body is closed all the same, the error of the attempt is left as it was,
\* nothing is returned, and the retry follows.
DrainFailed == res # NilRes /\ (res.Body.read = "error" \/ res.Body.closeErr)
DrainFailureIgnored ==
    /\ [](DrainFailed =>
            /\ pc \in {"reset", "retry"}
            /\ res.Body.state = "closed"
            /\ <<[res EXCEPT !.Body = OpenBody], err>> = outcomes[calls]
            /\ retries = calls - 1
            /\ returned = NoReturn)
    /\ [][(pc = "drain" /\ pc' # "drain") =>
            (pc' = "reset" /\ err' = err /\ retries' = retries /\ returned' = returned)]_vars
    /\ [][(pc = "retry" /\ DrainFailed /\ pc' # "retry") => calls' = calls + 1]_vars
DrainFailureIgnored_Witness ==
    /\ pc = "retry"
    /\ calls = 2
    /\ res # NilRes
    /\ res.Body.read = "error"
    /\ res.Body.state = "closed"

\* C15: with concurrent calls on one wrapped transport, in every interleaving
\* each call counts its own retries, uses its own body streams, waits and
\* returns according to the outcomes of its own attempts, and makes at most 4
\* attempts.
BackoffTotal(n) == IF n <= 2 THEN 0 ELSE IF n = 3 THEN 2 ELSE 6
ConcCallsArePrivate ==
    \A p \in Procs :
        LET c == conc.proc[p]
            f == conc.frame[p]
            inLoop == c.pc \in {"sleep", "reset", "retry"}
        IN  /\ c.calls <= 4
            /\ c.pc \in {"check", "sleep", "reset", "retry", "done"} =>
                  (f.retries = c.calls - 1 /\ f.err = c.out[2])
            /\ c.pc \in {"check", "done"} => (f.res = c.out[1] /\ c.slept = BackoffTotal(c.calls))
            /\ inLoop => (Retryable(c.out) /\ c.calls < 4)
            /\ c.pc = "done" =>
                  (c.returned = c.out /\ ~(Retryable(c.out) /\ c.calls < 4))
            /\ c.reqBody \in {NoStream, <<"orig", p>>, <<"snap", p>>}
            /\ c.pc = "idle" => (c = IdleProc /\ f = IdleFrame)
ConcCallsArePrivate_Witness ==
    /\ conc.proc[1].pc = "retry"
    /\ conc.frame[1].retries = 2
    /\ conc.proc[1].reqBody = <<"snap", 1>>
    /\ conc.proc[2].pc = "check"
    /\ conc.frame[2].retries = 0
    /\ conc.proc[2].reqBody = <<"orig", 2>>

\* position of an interceptor in the list of the chain; the base transport
\* comes after all of them
PositionOf(name) ==
    IF name = "base" THEN Len(chain.list) + 1
    ELSE CHOOSE i \in 1..Len(chain.list) : chain.list[i] = name

\* how many of the first e events are <<name, what>>
CountTo(name, what, e) == Cardinality({k \in 1..e : chain.events[k] = <<name, what>>})

\* interceptor name has started and not yet finished just before event e
OpenAt(name, e) == CountTo(name, "started", e - 1) > CountTo(name, "finished", e - 1)

\* C16: the first interceptor of the list is the outermost wrapper: whenever a
\* later interceptor, or the base transport, sees the call or the result, every
\* earlier interceptor has started and not finished; for [First, Second] the
\* events are First started, Second started, base, Second finished, First
\* finished.
FirstIsOutermost ==
    /\ \A e \in 1..Len(chain.events) :
          \A i \in 1..Len(chain.list) :
              (chain.list[i] \in PlainNames /\ i < PositionOf(chain.events[e][1])) =>
                  OpenAt(chain.list[i], e)
    /\ (chain.phase = "done" /\ chain.list = <<"First", "Second">>) =>
          chain.events = << <<"First", "started">>, <<"Second", "started">>,
                            <<"base", "called">>,
                            <<"Second", "finished">>, <<"First", "finished">> >>
    /\ (chain.phase = "done" /\ chain.list # << >> /\ chain.list[1] \in PlainNames) =>
          /\ chain.events[1] = <<chain.list[1], "started">>
          /\ chain.events[Len(chain.events)] = <<chain.list[1], "finished">>
FirstIsOutermost_Witness ==
    /\ chain.phase = "done"
    /\ chain.list = <<"First", "Second">>
    /\ Len(chain.events) = 5
    /\ chain.events[2] = <<"Second", "started">>
    /\ chain.events[5] = <<"First", "finished">>

\* C17: an interceptor placed before Retry in the list is invoked once per
\* request; an interceptor placed after Retry, and the base transport, are
\* invoked once per attempt, at most 4 times; so with Retry last every other
\* interceptor is invoked exactly once however many attempts are made.
HasRetry == \E i \in 1..Len(chain.list) : chain.list[i] = "Retry"
Invocations(name) == CountTo(name, "started", Len(chain.events))
RetryPlacement ==
    chain.phase = "done" =>
        /\ chain.baseCalls = CountTo("base", "called", Len(chain.events))
        /\ chain.baseCalls <= 4
        /\ IF HasRetry
           THEN ~(Retryable(chain.last) /\ chain.baseCalls < 4)
           ELSE chain.baseCalls = 1
        /\ chain.result = chain.last
        /\ \A i \in 1..Len(chain.list) :
              chain.list[i] \in PlainNames =>
                  Invocations(chain.list[i]) =
                      (IF HasRetry /\ PositionOf("Retry") < i THEN chain.baseCalls ELSE 1)
RetryPlacement_Witness ==
    /\ chain.phase = "done"
    /\ chain.list = <<"First", "Retry", "Second">>
    /\ chain.baseCalls = 4
    /\ Invocations("First") = 1
    /\ Invocations("Second") = 4

\* C18: RoundTripper(f).RoundTrip(req) calls f exactly once, with that request,
\* and returns what f answered; nothing else changes.
AdapterForwards ==
    /\ adapter.fcalls <= 1
    /\ adapter.pc \in {"ret", "done"} => (adapter.fcalls = 1 /\ adapter.arg = adapter.req)
    /\ adapter.pc = "done" => adapter.result = adapter.f[adapter.req]
    /\ adapter.pc # "done" => adapter.result = NoReturn
    /\ <<pc, calls, conc, chain>> = <<"idle", 0, ConcIdle, ChainIdle>>
AdapterForwards_Witness ==
    /\ adapter.pc = "done"
    /\ adapter.req = "POST /b"
    /\ adapter.arg = "POST /b"
    /\ adapter.fcalls = 1
    /\ IsError(adapter.result)
    /\ IsResponse(adapter.f["GET /a"])

\* ---- vocabulary of the client properties ----------------------------------

\* the value the last option named n of the list was made with, d when the list
\* holds no such option
RECURSIVE Given(_, _, _)
Given(options, n, d) ==
    IF options = << >> THEN d
    ELSE LET last == options[Len(options)]
         IN  IF last[1] = n THEN last[2]
             ELSE Given(SubSeq(options, 1, Len(options) - 1), n, d)

\* do has derived the request's context
ContextDerived == cli.applied # NoTimeout

\* C19, as stated: the context of a request gets the request's own timeout whenever
\* Request.WithTimeout was called, and the client's timeout only otherwise.
RequestTimeoutWheneverSet ==
    ContextDerived =>
        cli.applied = IF cli.timeoutSet THEN cli.timeout ELSE cli.c.timeout

\* C19, amended: the context of a request gets the request's own timeout whenever a
\* non-zero one was set with Request.WithTimeout, and the client's timeout otherwise
\* (also after Request.WithTimeout(0)); the client's timeout is DefaultTimeout unless
\* the client option WithTimeout changed it, the last such option winning.
RequestTimeoutWhenNonZero ==
    /\ ContextDerived =>
           cli.applied = IF cli.timeoutSet /\ cli.timeout # 0
                         THEN cli.timeout ELSE cli.c.timeout
    /\ cli.built = "NewClient" =>
           cli.c.timeout = Given(cli.options, "WithTimeout", DefaultTimeout)

RequestTimeoutWhenNonZero_Witness ==
    /\ ContextDerived
    /\ cli.built = "NewClient"
    /\ cli.options = <<(<<"WithTimeout", 5>>)>>
    /\ cli.timeoutSet
    /\ cli.timeout = 3
    /\ cli.applied = 3

\* C20, as stated: after NewClient(options...) each transport limit equals the value
\* of the option of the same name, or its documented default when the option is not
\* given.
TransportLimitsMatchOptions ==
    cli.built = "NewClient" =>
        /\ cli.transport.MaxIdleConns =
               Given(cli.options, "WithMaxIdleConnections", DefaultMaxIdleConnections)
        /\ cli.transport.MaxConnsPerHost =
               Given(cli.options, "WithMaxConnectionsPerHost",
                     DefaultMaxConnectionsPerHost)
        /\ cli.transport.MaxIdleConnsPerHost =
               Given(cli.options, "WithMaxOpenIdleConnectionsPerHost",
                     DefaultMaxIdleConnectionsPerHost)
        /\ cli.transport.IdleConnTimeout =
               Given(cli.options, "WithIdleConnectionTimeout",
                     DefaultIdleConnectionTimeout)
        /\ cli.transport.ForceAttemptHTTP2 =
               Given(cli.options, "WithForceAttemptHTTP2", DefaultForceAttemptHTTP2)

\* the two fields NewClient does copy from the option of the same name
TransportTimeoutAndHTTP2MatchOptions ==
    cli.built = "NewClient" =>
        /\ cli.transport.IdleConnTimeout =
               Given(cli.options, "WithIdleConnectionTimeout",
                     DefaultIdleConnectionTimeout)
        /\ cli.transport.ForceAttemptHTTP2 =
               Given(cli.options, "WithForceAttemptHTTP2", DefaultForceAttemptHTTP2)

\* NewClient without options leaves the three connection limits permuted
DefaultLimitsPermuted ==
    /\ cli.built = "NewClient"
    /\ cli.options = << >>
    /\ cli.transport.MaxIdleConns = DefaultMaxIdleConnectionsPerHost
    /\ cli.transport.MaxConnsPerHost = DefaultMaxIdleConnections
    /\ cli.transport.MaxIdleConnsPerHost = DefaultMaxIdleConnections

\* ---- vocabulary of the builder properties ----------------------------------

\* the map a call of the log writes
MapOf(call) == IF call[1] = "WithQuery" THEN "query" ELSE "header"

\* the key a call of the log names: as written, or as the header map files it
NamedKey(call, canonical) ==
    IF canonical /\ MapOf(call) = "header" THEN CanonicalMIMEHeaderKey(call[2])
    ELSE call[2]

\* the values a call of the log adds, query values rendered as text
AddedBy(call) ==
    IF call[1] = "WithQuery" THEN [i \in 1..Len(call[3]) |-> Sprintf(call[3][i])]
    ELSE call[3]

\* everything the calls of the log added to key k of a map, in call order
RECURSIVE Added(_, _, _, _)
Added(log, map, k, canonical) ==
    IF log = << >> THEN << >>
    ELSE (IF MapOf(Head(log)) = map /\ NamedKey(Head(log), canonical) = k
          THEN AddedBy(Head(log)) ELSE << >>)
         \o Added(Tail(log), map, k, canonical)

\* C21, as stated: after any sequence of WithHeader, WithAuth and WithQuery calls
\* the values stored for a key are the values added for that very key, in call
\* order (query values as text), keys not named are unchanged, and each call
\* returns the same builder.
BuilderAppendsUnderGivenKey ==
    /\ \A k \in StoredKeys : bld.header[k] = Added(bld.log, "header", k, FALSE)
    /\ \A n \in QueryNames : bld.query[n] = Added(bld.log, "query", n, FALSE)
    /\ bld.log # << >> => bld.ret = "r"

\* C21, amended: the same, with the key of a header taken in its canonical MIME
\* form: WithHeader(key, ...) appends to the values stored under the canonical
\* form of key and leaves every other key unchanged; WithAuth appends under
\* Authorization and WithQuery under the name as given.
BuilderAppendsUnderCanonicalKey ==
    /\ \A k \in StoredKeys : bld.header[k] = Added(bld.log, "header", k, TRUE)
    /\ \A n \in QueryNames : bld.query[n] = Added(bld.log, "query", n, TRUE)
    /\ bld.log # << >> => bld.ret = "r"

BuilderAppendsUnderCanonicalKey_Witness ==
    /\ bld.log = << <<"WithHeader", "x-id", <<"v1", "v2">> >>,
                    <<"WithHeader", "X-Id", <<"v1">> >> >>
    /\ bld.header["X-Id"] = <<"v1", "v2", "v1">>
    /\ bld.header["x-id"] = << >>
    /\ bld.ret = "r"

\* ---- properties of request.do and request.Body -------------------------------

\* do has returned
DoReturned == cli.result # NoResult

\* C22: do returns a nil response together with the error whenever building the
\* HTTP request fails or the client's round trip fails, and in the first case
\* the transport is never called; otherwise it returns a non-nil Response that
\* wraps the transport's response, with a nil error.
DoReturnsNilOnError ==
    /\ cli.buildErr => (DoReturned /\ cli.sent = 0 /\ cli.httpReq.isNil)
    /\ DoReturned =>
          IF cli.buildErr THEN cli.result = <<NilResponse, "builderr">>
          ELSE IF cli.out[2] # "nil"
          THEN cli.sent = 1 /\ cli.result = <<NilResponse, cli.out[2]>>
          ELSE /\ cli.sent = 1
               /\ cli.result[1] # NilResponse
               /\ cli.result = <<WrapResponse(cli.out[1]), "nil">>

DoReturnsNilOnError_Witness ==
    /\ cli.pc = "done"
    /\ cli.sent = 1
    /\ cli.out = <<"res", "err">>
    /\ cli.result = <<NilResponse, "err">>

\* C23, as stated: Body() completes normally in every state of the builder: it
\* yields no body when no request has been executed yet and when the executed
\* request has no body, and the body content when the executed request has one.
BodyCompletesNormally ==
    /\ cli.bodyResult # "panic"
    /\ cli.bodyResult # "none" =>
          IF cli.httpReq.isNil \/ cli.httpReq.Body = "nil"
          THEN cli.bodyResult \in {"ErrNoBody", "empty"}
          ELSE cli.bodyResult \in {"content", "empty"}

\* Body() on a request executed without body: the call of the nil GetBody panics
BodyPanicsWithoutBody ==
    /\ cli.bodyResult = "panic"
    /\ ~cli.httpReq.isNil
    /\ cli.httpReq.Body = "nil"
    /\ cli.result[1] # NilResponse

\* C27, as stated: every request with a body that reaches the retry interceptor
\* exposes a body factory, also when do built it from an arbitrary reader, so
\* that the snapshot before the first attempt never calls a missing factory.
BodyHasFactory ==
    /\ (cli.sent > 0 /\ cli.httpReq.Body # "nil") => cli.httpReq.GetBody # "nil"
    /\ cli.panicAt # "Retry"

\* ---- properties of the attempt counter and of the request --------------------

\* C24: the attempt counter stays within 0..3, is 0 until the first attempt is
\* done, is incremented by exactly 1 by each retry and by nothing else, the
\* number of downstream calls is retries + 1 once the first attempt is done, and
\* the counter is 0 again for the next request.
CounterCountsRetries ==
    /\ [](/\ retries \in 0..maxRetries
          /\ pc \in {"idle", "snapshot", "first"} => retries = 0
          /\ calls >= 1 => calls = retries + 1)
    /\ [][retries' # retries =>
              \/ pc = "retry" /\ retries' = retries + 1
              \/ pc \in {"done", "panic"} /\ pc' = "idle" /\ retries' = 0]_vars
    /\ [][(pc = "retry" /\ pc' # pc) => retries' = retries + 1]_vars
    /\ [][pc' = "idle" => retries' = 0]_vars

CounterCountsRetries_Witness == pc = "check" /\ retries = maxRetries /\ calls = 4

\* C26: the interceptor changes nothing of the request but its body stream, and
\* that only between attempts: every attempt gets the method, URL and headers the
\* caller gave, and for a request without body GetBody is never called and every
\* attempt gets a request without body.
OnlyBodyReassigned ==
    /\ [](/\ \A i \in 1..calls : sent[i].meta = reqMeta
          /\ (pc # "idle" /\ reqBody = "nil") =>
                 (getBodyCalls = 0 /\ \A i \in 1..calls : sent[i].body = "nil"))
    /\ [][reqMeta' # reqMeta => (pc = "idle" \/ pc' = "idle")]_vars
    /\ [][reqBody' # reqBody => (pc \in {"idle", "reset"} \/ pc' = "idle")]_vars

OnlyBodyReassigned_Witness ==
    /\ pc = "done"
    /\ calls = 4
    /\ reqBody = "nil"
    /\ reqMeta = "POST /b"
    /\ getBodyCalls = 0
    /\ \A i \in 1..4 : sent[i] = [meta |-> "POST /b", body |-> "nil"]

\* C28: the body of the response handed to the caller is never drained nor
\* closed by the interceptor: only a response that is followed by another attempt
\* is drained, so a response returned after the retries are used up, still with
\* a retryable status, is unread and open.
ReturnedBodyUntouched ==
    /\ returned[1] # NilRes => returned[1].Body = OpenBody
    /\ (res # NilRes /\ res.Body # OpenBody) => pc \in {"reset", "retry"}

ReturnedBodyUntouched_Witness ==
    /\ pc = "done"
    /\ calls = 4
    /\ returned[1] # NilRes
    /\ returned[1].StatusCode \in ConfiguredSet
    /\ returned[1].Body = OpenBody

\* C29: for a request with a body GetBody is called exactly once per RoundTrip
\* call, before the first attempt, however many retries follow; the first attempt
\* is sent with the original body stream and every retry with the one snapshot.
OneSnapshotForAllRetries ==
    /\ getBodyCalls <= 1
    /\ (reqBody # "nil" /\ pc \notin {"idle", "snapshot", "panic"}) => getBodyCalls = 1
    /\ (calls >= 1 /\ sent[1].body # "nil") =>
           /\ getBodyCalls = 1
           /\ sent[1].body = "orig"
           /\ \A i \in 2..calls : sent[i].body = "snap"

OneSnapshotForAllRetries_Witness ==
    /\ pc = "done"
    /\ calls = 4
    /\ getBodyCalls = 1
    /\ sent[1].body = "orig"
    /\ sent[4].body = "snap"

\* ---- properties of the captured slice -----------------------------------------

\* C25, as stated: once Retry(...) has returned, the codes the interceptor treats
\* as retryable never change: no RoundTrip writes them, they are the same for
\* every request, and later writes to the slice the caller passed do not reach
\* them.
RetrySetNeverChanges ==
    /\ alias.ref # "none" => CapturedCodes = alias.configured
    /\ (alias.ref # "none" /\ alias.status # 0) =>
           (alias.retried <=> Contains(alias.configured, alias.status))

\* what does hold: a RoundTrip writes no array, and an interceptor built without
\* arguments or from listed arguments keeps its codes
RetrySetKeptWithoutSharing ==
    /\ [][alias.arrays' # alias.arrays =>
              \/ alias.ref = "none" \/ alias'.ref = "none"
              \/ (alias'.status = alias.status /\ alias'.retried = alias.retried)]_vars
    /\ []((alias.ref \in {"default", "fresh"}) => CapturedCodes = alias.configured)

\* the caller's write has changed the decision of the interceptor
CallerWriteChangesPolicy ==
    /\ alias.ref = "caller"
    /\ alias.configured = <<418>>
    /\ CapturedCodes = <<500>>
    /\ alias.status = 418
    /\ ~alias.retried

\* ---- termination of a RoundTrip call ------------------------------------------

\* C30, as stated: every RoundTrip call eventually returns, provided every
\* downstream call returns and every backoff timer eventually fires or the
\* context is cancelled.
EveryCallReturns == (pc = "snapshot") ~> (pc = "done")

\* what does hold: every call comes to an end, by returning or, for a request
\* with a body and without GetBody, by the panic of the snapshot
EveryCallEnds == (pc = "snapshot") ~> (pc \in {"done", "panic"})

\* a call that ended without returning
CallPanicked == pc = "panic" /\ reqBody = "orig" /\ getBody = "missing" /\ calls = 0

====
